---- MODULE Spec2Model ----
(***************************************************************************)
(* A model of the jacket decision engine (js/decision.js, the regional +   *)
(* seasonal JacketDecision object, lines 195-544) and of its callers.      *)
(*                                                                         *)
(* Conventions                                                             *)
(*   - temperatures are integer degrees Fahrenheit, wind speeds integer    *)
(*     mph (WeatherAPI.processWeatherData rounds both with Math.round);    *)
(*   - latitudes and longitudes are integers in thousandths of a degree;   *)
(*   - Date.now() is an integer number of milliseconds;                    *)
(*   - a JavaScript string that the code takes apart (the location name)   *)
(*     is a sequence of one-character strings; a string that the code      *)
(*     only builds (reasoning, advice, cache key) is a TLA+ string;        *)
(*   - JavaScript null is the value  null.                                 *)
(***************************************************************************)
EXTENDS Integers, Sequences, FiniteSets, TLC

null == "null"
undefined == "undefined"

Abs(x) == IF x < 0 THEN -x ELSE x

(***************************************************************************)
(* JacketDecision.BASE_THRESHOLDS, CLIMATE_ZONES, seasonalCache            *)
(***************************************************************************)
NO_JACKET == 75
LIGHT_JACKET == 60
MEDIUM_JACKET == 45
HEAVY_JACKET == 45
TEMP_DROP_SIGNIFICANT == 10
WIND_CHILL_FACTOR == 5
HIGH_WIND == 15

WARM == -12
MODERATE == 0
COLD == 8

CACHE_DURATION == 24 * 60 * 60 * 1000

(***************************************************************************)
(* getClimateZone: the two city lists                                      *)
(***************************************************************************)
warmCities ==
  { <<"l","o","s"," ","a","n","g","e","l","e","s">>,
    <<"m","i","a","m","i">>,
    <<"p","h","o","e","n","i","x">>,
    <<"s","a","n"," ","d","i","e","g","o">>,
    <<"h","o","u","s","t","o","n">>,
    <<"t","a","m","p","a">>,
    <<"l","a","s"," ","v","e","g","a","s">>,
    <<"o","r","l","a","n","d","o">>,
    <<"a","t","l","a","n","t","a">>,
    <<"s","a","n"," ","a","n","t","o","n","i","o">>,
    <<"d","a","l","l","a","s">>,
    <<"a","u","s","t","i","n">>,
    <<"j","a","c","k","s","o","n","v","i","l","l","e">>,
    <<"m","e","x","i","c","o"," ","c","i","t","y">>,
    <<"s","y","d","n","e","y">>,
    <<"s","i","n","g","a","p","o","r","e">>,
    <<"b","a","n","g","k","o","k">>,
    <<"d","u","b","a","i">> }

coldCities ==
  { <<"c","h","i","c","a","g","o">>,
    <<"m","i","n","n","e","a","p","o","l","i","s">>,
    <<"t","o","r","o","n","t","o">>,
    <<"d","e","n","v","e","r">>,
    <<"d","e","t","r","o","i","t">>,
    <<"b","o","s","t","o","n">>,
    <<"m","i","l","w","a","u","k","e","e">>,
    <<"c","l","e","v","e","l","a","n","d">>,
    <<"b","u","f","f","a","l","o">>,
    <<"m","i","n","n","e","s","o","t","a">>,
    <<"w","i","s","c","o","n","s","i","n">>,
    <<"m","o","n","t","r","e","a","l">>,
    <<"c","a","l","g","a","r","y">>,
    <<"l","o","n","d","o","n">>,
    <<"p","a","r","i","s">>,
    <<"b","e","r","l","i","n">>,
    <<"m","o","s","c","o","w">>,
    <<"s","t","o","c","k","h","o","l","m">> }

(***************************************************************************)
(* String helpers: String.prototype.toLowerCase, split(/[,\s]+/)[0],       *)
(* includes, Array.prototype.join                                          *)
(***************************************************************************)
UpperLetters ==
  <<"A","B","C","D","E","F","G","H","I","J","K","L","M",
    "N","O","P","Q","R","S","T","U","V","W","X","Y","Z">>

LowerLetters ==
  <<"a","b","c","d","e","f","g","h","i","j","k","l","m",
    "n","o","p","q","r","s","t","u","v","w","x","y","z">>

toLowerCaseChar(c) ==
  IF \E i \in 1..26 : UpperLetters[i] = c
  THEN LowerLetters[CHOOSE i \in 1..26 : UpperLetters[i] = c]
  ELSE c

toLowerCase(s) == [i \in 1..Len(s) |-> toLowerCaseChar(s[i])]

\* the characters the class [,\s] matches
IsSeparator(c) == c \in {",", " ", "\t", "\n"}

\* s.split(/[,\s]+/)[0]: the text before the first separator (empty when s
\* starts with one)
FirstWord(s) ==
  LET seps == {i \in 1..Len(s) : IsSeparator(s[i])}
  IN IF seps = {} THEN s
     ELSE SubSeq(s, 1, (CHOOSE i \in seps : \A j \in seps : i <= j) - 1)

\* s.includes(t)
includes(s, t) ==
  \E i \in 1..(Len(s) - Len(t) + 1) : SubSeq(s, i, i + Len(t) - 1) = t

\* parts.join(', ')
RECURSIVE join(_)
join(parts) ==
  IF parts = <<>> THEN ""
  ELSE IF Len(parts) = 1 THEN parts[1]
  ELSE parts[1] \o ", " \o join(Tail(parts))

(***************************************************************************)
(* getClimateZone(lat, lon, cityName), decision.js 224-261                 *)
(***************************************************************************)
\* the test of lines 244 and 247: cities.some(city => primaryCity === city
\* || cityLower.includes(city + ','))
someCityMatches(cities, primaryCity, cityLower) ==
  \E city \in cities :
     primaryCity = city \/ includes(cityLower, Append(city, ","))

\* lines 251-260: the latitude fallback (lat in thousandths of a degree)
latitudeZone(lat) ==
  LET absLat == Abs(lat)
  IN IF absLat < 30 * 1000 THEN WARM
     ELSE IF absLat > 45 * 1000 THEN COLD
     ELSE MODERATE

\* mutant: the cold list is consulted before the warm list
getClimateZoneColdFirst(lat, lon, cityName) ==
  LET cityLower == toLowerCase(cityName)
      primaryCity == FirstWord(cityLower)
  IN IF someCityMatches(coldCities, primaryCity, cityLower) THEN COLD
     ELSE IF someCityMatches(warmCities, primaryCity, cityLower) THEN WARM
     ELSE latitudeZone(lat)

getClimateZone(lat, lon, cityName) ==
  LET cityLower == toLowerCase(cityName)
      primaryCity == FirstWord(cityLower)
  IN IF someCityMatches(warmCities, primaryCity, cityLower) THEN WARM
     ELSE IF someCityMatches(coldCities, primaryCity, cityLower) THEN COLD
     ELSE latitudeZone(lat)

(***************************************************************************)
(* calculateEffectiveTemp(temp, windSpeed), decision.js 460-468            *)
(***************************************************************************)
\* mutant: the wind effect is added instead of subtracted
calculateEffectiveTempAdded(temp, windSpeed) ==
  IF windSpeed >= WIND_CHILL_FACTOR /\ temp < 70
  THEN temp + (windSpeed - WIND_CHILL_FACTOR) \div 3
  ELSE temp

\* mutant: the wind chill is applied up to and including 70 degrees
calculateEffectiveTempUpTo70(temp, windSpeed) ==
  IF windSpeed >= WIND_CHILL_FACTOR /\ temp <= 70
  THEN temp - (windSpeed - WIND_CHILL_FACTOR) \div 3
  ELSE temp

calculateEffectiveTemp(temp, windSpeed) ==
  IF windSpeed >= WIND_CHILL_FACTOR /\ temp < 70
  THEN LET windEffect == (windSpeed - WIND_CHILL_FACTOR) \div 3
       IN temp - windEffect
  ELSE temp

(***************************************************************************)
(* buildTemperatureReasoning, decision.js 473-529                          *)
(***************************************************************************)
F(n) == ToString(n) \o "°F"

baseParts(current, forecast, factors, type) ==
  CASE type = "very-cold" ->
         <<"It's " \o F(current.temp)>>
         \o (IF factors.isWindy
             THEN <<"and windy (" \o ToString(current.windSpeed) \o " mph)">>
             ELSE <<>>)
         \o (IF factors.willGetColder
             THEN <<"dropping to " \o F(forecast.sixHour.temp) \o " later">>
             ELSE <<>>)
    [] type = "cold" ->
         <<"It's " \o F(current.temp)>>
         \o (IF factors.isWindy
             THEN <<"and breezy (" \o ToString(current.windSpeed) \o " mph)">>
             ELSE <<>>)
         \o (IF factors.willGetColder
             THEN <<"dropping to " \o F(forecast.sixHour.temp) \o " later">>
             ELSE <<>>)
    [] type = "cool" ->
         <<"It's a cool " \o F(current.temp)>>
         \o (IF factors.isWindy
             THEN <<"with some wind (" \o ToString(current.windSpeed) \o " mph)">>
             ELSE <<>>)
         \o (IF factors.willGetColder THEN <<"getting cooler later">> ELSE <<>>)
    [] type = "warm" ->
         <<"It's " \o F(current.temp) \o " and comfortable">>
         \o (IF ~factors.willGetColder
             THEN <<"staying warm through the day">>
             ELSE <<>>)
    [] OTHER -> <<>>

regionalParts(type, climateAdjustment) ==
  IF climateAdjustment = WARM /\ type # "warm"
  THEN <<"but locals in warm climates tend to bundle up at this temperature">>
  ELSE IF climateAdjustment = COLD /\ type = "warm"
  THEN <<"and people here are used to much colder weather">>
  ELSE <<>>

\* mutant: the seasonal sentence is added from a bias of 5 on
seasonalPartsFrom5(seasonalAdjustment) ==
  IF Abs(seasonalAdjustment) >= 5
  THEN <<"It's been "
         \o (IF seasonalAdjustment > 0 THEN "very cold" ELSE "very warm")
         \o " lately, so this feels "
         \o (IF seasonalAdjustment > 0 THEN "warmer" ELSE "cooler")
         \o " than usual">>
  ELSE <<>>

seasonalParts(seasonalAdjustment) ==
  IF Abs(seasonalAdjustment) > 5
  THEN <<"It's been "
         \o (IF seasonalAdjustment > 0 THEN "very cold" ELSE "very warm")
         \o " lately, so this feels "
         \o (IF seasonalAdjustment > 0 THEN "warmer" ELSE "cooler")
         \o " than usual">>
  ELSE <<>>

\* mutant: the seasonal sentence is pushed before the regional one
reasoningPartsSeasonalFirst(current, forecast, factors, type, climateAdjustment, seasonalAdjustment) ==
  baseParts(current, forecast, factors, type)
  \o seasonalParts(seasonalAdjustment)
  \o regionalParts(type, climateAdjustment)

reasoningParts(current, forecast, factors, type, climateAdjustment, seasonalAdjustment) ==
  baseParts(current, forecast, factors, type)
  \o regionalParts(type, climateAdjustment)
  \o seasonalParts(seasonalAdjustment)

buildTemperatureReasoning(current, forecast, factors, type, climateAdjustment, seasonalAdjustment) ==
  join(reasoningParts(current, forecast, factors, type,
                      climateAdjustment, seasonalAdjustment))

\* mutant: the seasonal sentence is taken from the entries of the cache
buildTemperatureReasoningReadsCache(data, t, a) ==
  join(baseParts(a.current, a.forecast, a.factors, a.type)
       \o regionalParts(a.type, a.climateAdjustment)
       \o seasonalParts(IF DOMAIN data # {} THEN a.seasonalAdjustment ELSE 0))

\* the method called with the arguments a, on the object whose
\* seasonalCache.data is data, at the time t: it reads neither
buildTemperatureReasoningAt(data, t, a) ==
  buildTemperatureReasoning(a.current, a.forecast, a.factors, a.type,
                            a.climateAdjustment, a.seasonalAdjustment)

(***************************************************************************)
(* makeDecision(weatherData), decision.js 361-455: the part that runs      *)
(* once the seasonal adjustment has been awaited (lines 368-454).  hour    *)
(* is the value new Date().getHours() returns at line 385.                 *)
(***************************************************************************)
\* mutant: the adjustment is subtracted from the four boundaries
adjustedThresholdsLowered(totalAdjustment) ==
  [ NO_JACKET             |-> NO_JACKET - totalAdjustment,
    LIGHT_JACKET          |-> LIGHT_JACKET - totalAdjustment,
    MEDIUM_JACKET         |-> MEDIUM_JACKET - totalAdjustment,
    HEAVY_JACKET          |-> HEAVY_JACKET - totalAdjustment,
    TEMP_DROP_SIGNIFICANT |-> TEMP_DROP_SIGNIFICANT,
    WIND_CHILL_FACTOR     |-> WIND_CHILL_FACTOR,
    HIGH_WIND             |-> HIGH_WIND ]

\* mutant: every entry of BASE_THRESHOLDS is shifted
adjustedThresholdsAllShifted(totalAdjustment) ==
  [ NO_JACKET             |-> NO_JACKET + totalAdjustment,
    LIGHT_JACKET          |-> LIGHT_JACKET + totalAdjustment,
    MEDIUM_JACKET         |-> MEDIUM_JACKET + totalAdjustment,
    HEAVY_JACKET          |-> HEAVY_JACKET + totalAdjustment,
    TEMP_DROP_SIGNIFICANT |-> TEMP_DROP_SIGNIFICANT + totalAdjustment,
    WIND_CHILL_FACTOR     |-> WIND_CHILL_FACTOR + totalAdjustment,
    HIGH_WIND             |-> HIGH_WIND + totalAdjustment ]

\* lines 371-379
adjustedThresholdsOf(totalAdjustment) ==
  [ NO_JACKET             |-> NO_JACKET + totalAdjustment,
    LIGHT_JACKET          |-> LIGHT_JACKET + totalAdjustment,
    MEDIUM_JACKET         |-> MEDIUM_JACKET + totalAdjustment,
    HEAVY_JACKET          |-> HEAVY_JACKET + totalAdjustment,
    TEMP_DROP_SIGNIFICANT |-> TEMP_DROP_SIGNIFICANT,
    WIND_CHILL_FACTOR     |-> WIND_CHILL_FACTOR,
    HIGH_WIND             |-> HIGH_WIND ]

\* mutant: the evening counts as 5 degrees colder
factorsOfColderEvenings(snapshot, adjustedThresholds, hour) ==
  LET current == snapshot.current
      forecast == snapshot.forecast
      precipitation == snapshot.precipitation
      effectiveTemp == calculateEffectiveTemp(current.temp, current.windSpeed)
                         - (IF hour >= 18 \/ hour < 6 THEN 5 ELSE 0)
      tempDrop == current.temp - forecast.sixHour.temp
  IN [ isVeryCold      |-> effectiveTemp < adjustedThresholds.HEAVY_JACKET,
       isCold          |-> effectiveTemp < adjustedThresholds.MEDIUM_JACKET,
       isCool          |-> effectiveTemp < adjustedThresholds.LIGHT_JACKET,
       isWarm          |-> effectiveTemp >= adjustedThresholds.NO_JACKET,
       significantDrop |-> tempDrop >= adjustedThresholds.TEMP_DROP_SIGNIFICANT,
       isRainy         |-> precipitation.isRaining \/ precipitation.chance > 50,
       isWindy         |-> current.windSpeed >= adjustedThresholds.HIGH_WIND,
       isEvening       |-> hour >= 18 \/ hour < 6,
       isMorning       |-> hour >= 6 /\ hour < 12,
       willGetColder   |-> forecast.sixHour.temp < current.temp - 5 ]

\* mutant: isWarm is taken from the heavy threshold
factorsOfWarmFromHeavy(snapshot, adjustedThresholds, hour) ==
  LET current == snapshot.current
      forecast == snapshot.forecast
      precipitation == snapshot.precipitation
      effectiveTemp == calculateEffectiveTemp(current.temp, current.windSpeed)
      tempDrop == current.temp - forecast.sixHour.temp
  IN [ isVeryCold      |-> effectiveTemp < adjustedThresholds.HEAVY_JACKET,
       isCold          |-> effectiveTemp < adjustedThresholds.MEDIUM_JACKET,
       isCool          |-> effectiveTemp < adjustedThresholds.LIGHT_JACKET,
       isWarm          |-> effectiveTemp >= adjustedThresholds.HEAVY_JACKET,
       significantDrop |-> tempDrop >= adjustedThresholds.TEMP_DROP_SIGNIFICANT,
       isRainy         |-> precipitation.isRaining \/ precipitation.chance > 50,
       isWindy         |-> current.windSpeed >= adjustedThresholds.HIGH_WIND,
       isEvening       |-> hour >= 18 \/ hour < 6,
       isMorning       |-> hour >= 6 /\ hour < 12,
       willGetColder   |-> forecast.sixHour.temp < current.temp - 5 ]

\* lines 381-404
factorsOf(snapshot, adjustedThresholds, hour) ==
  LET current == snapshot.current
      forecast == snapshot.forecast
      precipitation == snapshot.precipitation
      effectiveTemp == calculateEffectiveTemp(current.temp, current.windSpeed)
      tempDrop == current.temp - forecast.sixHour.temp
  IN [ isVeryCold      |-> effectiveTemp < adjustedThresholds.HEAVY_JACKET,
       isCold          |-> effectiveTemp < adjustedThresholds.MEDIUM_JACKET,
       isCool          |-> effectiveTemp < adjustedThresholds.LIGHT_JACKET,
       isWarm          |-> effectiveTemp >= adjustedThresholds.NO_JACKET,
       significantDrop |-> tempDrop >= adjustedThresholds.TEMP_DROP_SIGNIFICANT,
       isRainy         |-> precipitation.isRaining \/ precipitation.chance > 50,
       isWindy         |-> current.windSpeed >= adjustedThresholds.HIGH_WIND,
       isEvening       |-> hour >= 18 \/ hour < 6,
       isMorning       |-> hour >= 6 /\ hour < 12,
       willGetColder   |-> forecast.sixHour.temp < current.temp - 5 ]

\* mutant: rain alone makes the branch a jacket branch
branchOfRainDecides(factors) ==
  IF factors.isVeryCold THEN "very-cold"
  ELSE IF factors.isCold THEN "cold"
  ELSE IF factors.isCool \/ factors.isRainy THEN "cool"
  ELSE "warm"

\* lines 409-430: the branch taken (the `type' handed to
\* buildTemperatureReasoning)
branchOf(factors) ==
  IF factors.isVeryCold THEN "very-cold"
  ELSE IF factors.isCold THEN "cold"
  ELSE IF factors.isCool THEN "cool"
  ELSE "warm"

\* mutant: the three-way answer of the earlier variant
answerOfThreeWay(type) ==
  IF type = "warm" THEN "NO" ELSE IF type = "cool" THEN "MAYBE" ELSE "YES"

answerOf(type) == IF type = "warm" THEN "NO" ELSE "YES"

jacketTypeOf(type) ==
  CASE type = "very-cold" -> "Heavy jacket or coat"
    [] type = "cold"      -> "Medium jacket"
    [] type = "cool"      -> "Light jacket or sweater"
    [] OTHER              -> null

\* lines 432-441
rainAdviceOf(factors) ==
  IF factors.isRainy
  THEN IF factors.isVeryCold \/ factors.isCold
       THEN "Rain expected - consider waterproof jacket"
       ELSE IF factors.isCool
       THEN "Rain expected - light rain gear recommended"
       ELSE "Rain expected - no jacket needed for warmth, but consider rain gear"
  ELSE null

\* the branch makeDecision takes for a snapshot and a pair of biases
typeOf(snapshot, climateAdjustment, seasonalAdjustment, hour) ==
  branchOf(factorsOf(snapshot,
                     adjustedThresholdsOf(climateAdjustment + seasonalAdjustment),
                     hour))

\* lines 368-454
decide(snapshot, climateAdjustment, seasonalAdjustment, hour) ==
  LET totalAdjustment == climateAdjustment + seasonalAdjustment
      adjustedThresholds == adjustedThresholdsOf(totalAdjustment)
      factors == factorsOf(snapshot, adjustedThresholds, hour)
      type == branchOf(factors)
  IN [ answer      |-> answerOf(type),
       reasoning   |-> buildTemperatureReasoning(snapshot.current,
                          snapshot.forecast, factors, type,
                          climateAdjustment, seasonalAdjustment),
       jacketType  |-> jacketTypeOf(type),
       rainAdvice  |-> rainAdviceOf(factors),
       factors     |-> factors,
       adjustments |-> [ climate  |-> climateAdjustment,
                         seasonal |-> seasonalAdjustment,
                         total    |-> totalAdjustment ] ]

(***************************************************************************)
(* getCacheKey, isSeasonalCacheValid, getSeasonalAdjustment,               *)
(* decision.js 266-355                                                     *)
(***************************************************************************)
\* Number.prototype.toFixed(2) of x thousandths: the sign is printed for
\* every x < 0, also when the digits round to 0.00.  (A value exactly half
\* way between two hundredths is rounded by its binary expansion; the
\* coordinates drawn below never end in 5.)
toFixed2(x) ==
  LET n == (Abs(x) + 5) \div 10
      frac == n % 100
  IN (IF x < 0 THEN "-" ELSE "")
     \o ToString(n \div 100) \o "."
     \o (IF frac < 10 THEN "0" ELSE "") \o ToString(frac)

getCacheKey(lat, lon) == toFixed2(lat) \o "," \o toFixed2(lon)

\* mutant: an entry is still valid when exactly CACHE_DURATION old
isSeasonalCacheValidInclusive(data, t, lat, lon) ==
  LET key == getCacheKey(lat, lon)
  IN IF key \notin DOMAIN data THEN FALSE
     ELSE (t - data[key].timestamp) <= CACHE_DURATION

\* data is seasonalCache.data, a function from the keys stored so far to
\* { adjustment, timestamp }; t is Date.now()
isSeasonalCacheValid(data, t, lat, lon) ==
  LET key == getCacheKey(lat, lon)
  IN IF key \notin DOMAIN data THEN FALSE
     ELSE (t - data[key].timestamp) < CACHE_DURATION

\* A daily value of the archive response is <<v>> for the number v and <<>>
\* for null.
RECURSIVE sum(_)
sum(temps) == IF temps = <<>> THEN 0 ELSE Head(temps)[1] + sum(Tail(temps))

\* mutant: a mean on a boundary falls in the stronger band
adjustmentForInclusive(total, count) ==
  IF total >= 75 * count THEN -8
  ELSE IF total >= 70 * count THEN -5
  ELSE IF total <= 30 * count THEN 8
  ELSE IF total <= 40 * count THEN 5
  ELSE 0

\* lines 331-341, for avgTemp = total / count (count > 0)
adjustmentFor(total, count) ==
  IF total > 75 * count THEN -8
  ELSE IF total > 70 * count THEN -5
  ELSE IF total < 30 * count THEN 8
  ELSE IF total < 40 * count THEN 5
  ELSE 0

\* mutant: an entry of any age is returned
seasonalStartAnyEntry(data, t, lat, lon) ==
  LET key == getCacheKey(lat, lon)
  IN IF key \in DOMAIN data
     THEN [pc |-> "returned", ret |-> data[key].adjustment]
     ELSE [pc |-> "fetch", ret |-> 0]

\* lines 284-311: up to the first await.  Either the cached adjustment is
\* returned or the archive request is issued.
seasonalStart(data, t, lat, lon) ==
  LET key == getCacheKey(lat, lon)
  IN IF isSeasonalCacheValid(data, t, lat, lon)
     THEN [pc |-> "returned", ret |-> data[key].adjustment]
     ELSE [pc |-> "fetch", ret |-> 0]

\* mutant: a failed request falls back to the "cold recently" bias
seasonalOnFetchFallsBackTo5(response) ==
  IF response.kind = "reject" \/ ~response.ok
  THEN [pc |-> "returned", ret |-> 5]
  ELSE [pc |-> "json", ret |-> 0]

\* lines 302-317: the request settles.  response.kind is "reject" (fetch
\* throws), or "http" with response.ok
seasonalOnFetch(response) ==
  IF response.kind = "reject" \/ ~response.ok
  THEN [pc |-> "returned", ret |-> 0]      \* caught at 351-354
  ELSE [pc |-> "json", ret |-> 0]

\* mutant: an entry already stored for the key is kept (first write wins)
seasonalOnJsonKeepsFirst(data, t, key, body) ==
  IF body.kind # "daily"
  THEN [ret |-> 0, data |-> data, wrote |-> FALSE]
  ELSE LET temps == SelectSeq(body.temps, LAMBDA temp : temp # <<>>)
       IN IF Len(temps) = 0
          THEN [ret |-> 0, data |-> data, wrote |-> FALSE]
          ELSE LET adjustment == adjustmentFor(sum(temps), Len(temps))
               IN [ ret  |-> adjustment,
                    wrote |-> TRUE,
                    data |-> [k \in DOMAIN data \cup {key} |->
                                IF k \in DOMAIN data
                                THEN data[k]
                                ELSE [adjustment |-> adjustment, timestamp |-> t]] ]

\* mutant: a body without an average evicts the entry stored for the key
seasonalOnJsonEvicts(data, t, key, body) ==
  LET evicted == [k \in DOMAIN data \ {key} |-> data[k]]
  IN IF body.kind # "daily"
     THEN [ret |-> 0, data |-> evicted, wrote |-> FALSE]
     ELSE LET temps == SelectSeq(body.temps, LAMBDA temp : temp # <<>>)
          IN IF Len(temps) = 0
             THEN [ret |-> 0, data |-> evicted, wrote |-> FALSE]
             ELSE LET adjustment == adjustmentFor(sum(temps), Len(temps))
                  IN [ ret  |-> adjustment,
                       wrote |-> TRUE,
                       data |-> [k \in DOMAIN data \cup {key} |->
                                   IF k = key
                                   THEN [adjustment |-> adjustment, timestamp |-> t]
                                   ELSE data[k]] ]

\* lines 317-354: response.json() settles.  body.kind is "throw" (not
\* JSON), "nodaily" (no daily / temperature_2m_mean) or "daily" with
\* body.temps the array.  Gives the returned value, the new cache data and
\* whether the assignment of line 344 was executed.
seasonalOnJson(data, t, key, body) ==
  IF body.kind # "daily"
  THEN [ret |-> 0, data |-> data, wrote |-> FALSE]
  ELSE LET temps == SelectSeq(body.temps, LAMBDA temp : temp # <<>>)
       IN IF Len(temps) = 0
          THEN [ret |-> 0, data |-> data, wrote |-> FALSE]
          ELSE LET adjustment == adjustmentFor(sum(temps), Len(temps))
               IN [ ret  |-> adjustment,
                    wrote |-> TRUE,
                    data |-> [k \in DOMAIN data \cup {key} |->
                                IF k = key
                                THEN [adjustment |-> adjustment, timestamp |-> t]
                                ELSE data[k]] ]

(***************************************************************************)
(* Bounds and the inputs drawn from them                                   *)
(***************************************************************************)
\* current.temp ranges over MinTemp..MaxTemp; MinTemp is one degree below
\* the lowest heavy-jacket threshold any pair of biases gives
MinTemp == HEAVY_JACKET + WARM - 8 - 1
MaxTemp == 78
Temps == MinTemp..MaxTemp

\* current.windSpeed: below the wind-chill activation, one degree of wind
\* chill, and windy with five
Winds == {4, 8, 20}

\* current.temp - forecast.sixHour.temp
Drops == {0, 6, 10}

Precipitations ==
  { [chance |-> 50, isRaining |-> FALSE],
    [chance |-> 51, isRaining |-> FALSE],
    [chance |-> 0, isRaining |-> TRUE] }

\* new Date().getHours(): morning, afternoon, evening
Hours == {6, 12, 18}

MiamiFL == <<"M","i","a","m","i",","," ","F","L">>
ChicagoIL == <<"C","h","i","c","a","g","o",","," ","I","L">>
Nowhereville == <<"N","o","w","h","e","r","e","v","i","l","l","e">>

\* location: name, lat, lon (thousandths of a degree)
Locations ==
  { [name |-> MiamiFL, lat |-> 25761, lon |-> -80192],
    [name |-> ChicagoIL, lat |-> 41878, lon |-> -87630],
    [name |-> Nowhereville, lat |-> 40001, lon |-> 4] }

Snapshots ==
  { [ location      |-> l,
      current       |-> [temp |-> t, windSpeed |-> w],
      forecast      |-> [sixHour |-> [temp |-> t - d]],
      precipitation |-> p ] :
    l \in Locations, t \in Temps, w \in Winds, d \in Drops, p \in Precipitations }

\* the clock of the seasonal runs advances by half days up to MaxHalfDays
MaxHalfDays == 2
HalfDay == CACHE_DURATION \div 2

\* concurrent getSeasonalAdjustment calls
NCalls == 2
Calls == 1..NCalls

\* What the archive request can give.
Responses ==
  { [kind |-> "reject", ok |-> FALSE],
    [kind |-> "http", ok |-> FALSE],
    [kind |-> "http", ok |-> TRUE] }

NullDay == <<>>
Day(v) == <<v>>

\* what response.json() can give: one body per outcome of lines 317-341
Bodies ==
  { [kind |-> "throw", temps |-> <<>>],
    [kind |-> "nodaily", temps |-> <<>>],
    [kind |-> "daily", temps |-> <<NullDay>>],
    [kind |-> "daily", temps |-> <<Day(80), NullDay>>],
    [kind |-> "daily", temps |-> <<Day(75)>>],
    [kind |-> "daily", temps |-> <<Day(50), Day(60)>>],
    [kind |-> "daily", temps |-> <<NullDay, Day(30)>>],
    [kind |-> "daily", temps |-> <<Day(20)>>] }

(***************************************************************************)
(* State                                                                   *)
(***************************************************************************)
VARIABLES
  weatherData,    \* the snapshot handed to makeDecision
  md,             \* the makeDecision call: pc, locals, the resolved result
  sa,             \* the getSeasonalAdjustment calls in flight, one record per
                  \* call slot (idle: no call in the slot)
  seasonalCache,  \* JacketDecision.seasonalCache.data
  now,            \* Date.now()
  log,            \* history: one record per direct getSeasonalAdjustment
                  \* call: its arguments and key, Date.now() at the call,
                  \* whether no other call was in flight, the timestamp of
                  \* the entry found (-1: none), whether it issued the
                  \* request, whether it has returned and what
  pure            \* a pure function applied to drawn arguments

\* WeatherAPI
VARIABLES
  cache,          \* WeatherAPI.cache: data and timestamp, each <<>> for null
                  \* and <<v>> for the value v
  gw,             \* the getWeatherByCoords calls in flight, one record per
                  \* call slot
  observed        \* history: the snapshot last stored by a successful call
                  \* and when, whether clearCache was called since, how the
                  \* last call to complete ended, and the last call begun

weatherVars == <<cache, gw, observed>>

\* App
VARIABLES
  app,            \* App.state.location and weatherData (<<>> for null), the
                  \* view shown, the pending geolocation request, and the
                  \* snapshot last handed to showResult
  search          \* the location input: App.state.searchTimeout and
                  \* suggestions, the pending timers, the searches in
                  \* flight, and the history of input events and searches

appVars == <<app, search>>

vars ==
  <<weatherData, md, sa, seasonalCache, now, log, pure, cache, gw, observed,
    app, search>>

NoSnapshot == [location |-> [name |-> <<>>, lat |-> 0, lon |-> 0]]
NoResult == [answer |-> "pending"]
IdleCall == [pc |-> "idle", key |-> "", id |-> 0]
IdleDecision ==
  [ pc |-> "idle", climateAdjustment |-> 0, hour |-> 0,
    adjustedThresholds |-> adjustedThresholdsOf(0), result |-> NoResult ]
NoPure == [fn |-> "none"]

EmptyCache == [k \in {} |-> 0]

(***************************************************************************)
(* The clock                                                               *)
(***************************************************************************)
Tick ==
  /\ now + HalfDay <= MaxHalfDays * HalfDay
  /\ now' = now + HalfDay
  /\ UNCHANGED <<weatherData, md, sa, seasonalCache, log, pure, weatherVars, appVars>>

(***************************************************************************)
(* makeDecision(weatherData) as one call in flight, using call slot 1 for  *)
(* its getSeasonalAdjustment                                               *)
(***************************************************************************)
\* lines 368-454 run when the awaited adjustment arrives
resolved(climateAdjustment, seasonalAdjustment, hour) ==
  [ pc |-> "resolved",
    climateAdjustment |-> climateAdjustment,
    hour |-> hour,
    adjustedThresholds |-> adjustedThresholdsOf(climateAdjustment + seasonalAdjustment),
    result |-> decide(weatherData, climateAdjustment, seasonalAdjustment, hour) ]

\* lines 361-366, and the rest when the cache answers
MakeDecision ==
  /\ md.pc \in {"idle", "resolved"}
  /\ sa[1].pc = "idle"
  /\ LET location == weatherData.location
         climateAdjustment == getClimateZone(location.lat, location.lon, location.name)
         start == seasonalStart(seasonalCache, now, location.lat, location.lon)
     IN /\ sa' = [sa EXCEPT ![1] =
                    IF start.pc = "returned" THEN IdleCall
                    ELSE [ pc |-> start.pc,
                           key |-> getCacheKey(location.lat, location.lon),
                           id |-> 0 ]]
        /\ IF start.pc = "returned"
           THEN \E hour \in Hours :
                  md' = resolved(climateAdjustment, start.ret, hour)
           ELSE md' = [IdleDecision EXCEPT !.pc = "awaitSeasonal",
                                           !.climateAdjustment = climateAdjustment]
  /\ UNCHANGED <<weatherData, seasonalCache, now, log, pure, weatherVars, appVars>>

\* the caller of slot c continues with the returned adjustment
Continue(c, ret) ==
  IF c = 1 /\ md.pc = "awaitSeasonal"
  THEN \E hour \in Hours : md' = resolved(md.climateAdjustment, ret, hour)
  ELSE UNCHANGED md

(***************************************************************************)
(* getSeasonalAdjustment(lat, lon) called directly, in call slot c         *)
(***************************************************************************)
\* coordinates for the direct calls: the first two share the key
\* "40.00,0.00", the third has "40.01,0.00"
Coordinates ==
  { [lat |-> 40001, lon |-> 4],
    [lat |-> 40004, lon |-> -4 + 8],
    [lat |-> 40006, lon |-> 4] }

\* calls logged in one behaviour
MaxCalls == 2

\* the call of slot c returns ret to a direct caller; wrote tells whether
\* line 344 was executed on the way
Return(c, ret, wrote) ==
  IF sa[c].id > 0
  THEN log' = [log EXCEPT ![sa[c].id].done = TRUE,
                          ![sa[c].id].ret = ret,
                          ![sa[c].id].wrote = wrote]
  ELSE UNCHANGED log

\* lines 283-311; a new call takes the first free slot
GetSeasonalAdjustment(c, lat, lon) ==
  /\ sa[c].pc = "idle"
  /\ \A d \in Calls : d < c => sa[d].pc # "idle"
  /\ Len(log) < MaxCalls
  /\ LET key == getCacheKey(lat, lon)
         start == seasonalStart(seasonalCache, now, lat, lon)
     IN /\ sa' = [sa EXCEPT ![c] =
                    IF start.pc = "returned" THEN IdleCall
                    ELSE [pc |-> start.pc, key |-> key, id |-> Len(log) + 1]]
        /\ log' = Append(log,
                    [ lat     |-> lat,
                      lon     |-> lon,
                      key     |-> key,
                      at      |-> now,
                      alone   |-> \A d \in Calls : sa[d].pc \notin {"fetch", "json"},
                      found   |-> IF key \in DOMAIN seasonalCache
                                  THEN seasonalCache[key].timestamp ELSE -1,
                      fetched |-> start.pc = "fetch",
                      done    |-> start.pc = "returned",
                      ret     |-> start.ret,
                      wrote   |-> FALSE ])
  /\ UNCHANGED <<weatherData, md, seasonalCache, now, pure, weatherVars, appVars>>

\* lines 302-315: the archive request settles
FetchSettles(c, response) ==
  /\ sa[c].pc = "fetch"
  /\ LET out == seasonalOnFetch(response)
     IN IF out.pc = "returned"
        THEN /\ sa' = [sa EXCEPT ![c] = IdleCall]
             /\ Return(c, out.ret, FALSE)
             /\ Continue(c, out.ret)
        ELSE /\ sa' = [sa EXCEPT ![c].pc = out.pc]
             /\ UNCHANGED <<md, log>>
  /\ UNCHANGED <<weatherData, seasonalCache, now, pure, weatherVars, appVars>>

\* lines 317-354: response.json() settles
JsonSettles(c, body) ==
  /\ sa[c].pc = "json"
  /\ LET out == seasonalOnJson(seasonalCache, now, sa[c].key, body)
     IN /\ seasonalCache' = out.data
        /\ sa' = [sa EXCEPT ![c] = IdleCall]
        /\ Return(c, out.ret, out.wrote)
        /\ Continue(c, out.ret)
  /\ UNCHANGED <<weatherData, now, pure, weatherVars, appVars>>

(***************************************************************************)
(* WeatherAPI, part_000 6-218: the cache, getWeatherByCoords,              *)
(* reverseGeocode, processWeatherData (the location and timestamp of the   *)
(* snapshot), clearCache                                                   *)
(***************************************************************************)
WEATHER_CACHE_DURATION == 10 * 60 * 1000

\* mutant: the snapshot is still valid when exactly 10 minutes old
isCacheValidInclusive(c, t) ==
  IF c.data = <<>> \/ c.timestamp = <<>> \/ c.timestamp = <<0>> THEN FALSE
  ELSE (t - c.timestamp[1]) <= WEATHER_CACHE_DURATION

\* lines 20-23; null and 0 are the falsy timestamps, null the falsy data
isCacheValid(c, t) ==
  IF c.data = <<>> \/ c.timestamp = <<>> \/ c.timestamp = <<0>> THEN FALSE
  ELSE (t - c.timestamp[1]) < WEATHER_CACHE_DURATION

\* lines 65-82: the location info reverseGeocode resolves with
reverseGeocode(response, lat, lon) ==
  IF response.kind = "reject" \/ ~response.ok
  THEN [name |-> toFixed2(lat) \o ", " \o toFixed2(lon), country |-> ""]
  ELSE [name |-> "Current Location", country |-> ""]

\* lines 123-175: the location and the timestamp of the snapshot (the
\* weather values are left out here)
processWeatherData(data, locationInfo, t) ==
  [ location  |-> [ name    |-> locationInfo.name,
                    country |-> locationInfo.country,
                    lat     |-> data.latitude,
                    lon     |-> data.longitude ],
    timestamp |-> t ]

\* the clock of the weather runs starts five minutes after 0 and advances
\* by five minutes
FiveMinutes == WEATHER_CACHE_DURATION \div 2
MaxFiveMinutes == 3

WeatherTick ==
  /\ now + FiveMinutes <= MaxFiveMinutes * FiveMinutes
  /\ now' = now + FiveMinutes
  /\ UNCHANGED <<weatherData, md, sa, seasonalCache, log, pure, weatherVars, appVars>>

\* the two places asked for
Places == { [lat |-> 40001, lon |-> 4], [lat |-> 25761, lon |-> -80192] }

\* what response.json() gives: it throws, or a body without current/hourly
\* (processWeatherData throws on it), or the forecast of the place asked for
WeatherBodies == {"throw", "malformed", "forecast"}

\* lines 28-36: to the first await
GetWeatherByCoords(c, lat, lon) ==
  /\ gw[c].pc = "idle"
  /\ \A d \in Calls : d < c => gw[d].pc # "idle"
  /\ LET valid == isCacheValid(cache, now)
     IN /\ gw' = [gw EXCEPT ![c] =
                    IF valid THEN [pc |-> "idle"]
                    ELSE [pc |-> "fetch", lat |-> lat, lon |-> lon]]
        /\ observed' = [observed EXCEPT !.call =
                          [ op |-> "call", lat |-> lat, lon |-> lon, at |-> now,
                            fetched |-> ~valid,
                            ret |-> IF valid THEN cache.data ELSE <<>>,
                            stored |-> observed.stored,
                            storedAt |-> observed.storedAt,
                            cleared |-> observed.cleared ]]
  /\ UNCHANGED <<weatherData, md, sa, seasonalCache, now, log, pure, cache, appVars>>

\* the call of slot c was made by App.selectLocation or App.fetchWeather
IsAppCall(c) == "caller" \in DOMAIN gw[c]

\* part_000 500-503: selectLocation overrides the name and the country of
\* the snapshot it was given
overrideLocation(snapshot, location) ==
  [snapshot EXCEPT
     !.location.name = location.name,
     !.location.country = IF location.state # ""
                          THEN location.state \o ", " \o location.country
                          ELSE location.country]

\* the snapshot object after the caller of slot c has continued with it; the
\* cache holds the same object
returnedTo(c, snapshot) ==
  IF IsAppCall(c) /\ gw[c].caller = "selectLocation"
  THEN overrideLocation(snapshot, gw[c].selected)
  ELSE snapshot

\* decision.js 361: makeDecision is an async function; what a call of it
\* evaluates to is a Promise, whatever the function does.  Nothing awaits
\* the promise of line 610 or reads what it settles to, and no code of App
\* reads the seasonal cache its getSeasonalAdjustment may write: that call
\* is explored by the decision and the seasonal runs, and the App runs keep
\* the promise only.
Promise == [promise |-> "pending"]

\* v[p] of JavaScript
PropertyOf(v, p) == IF p \in DOMAIN v THEN v[p] ELSE undefined

\* part_000 613-614: decision.answer.toLowerCase() throws a TypeError when
\* decision.answer is undefined
showResultThrows(decision) == PropertyOf(decision, "answer") = undefined

\* part_000 608-636, and 507-509 / 594-601 when it throws: App.state after
\* showResult(snapshot) was called from the try block of selectLocation or
\* fetchWeather
afterShowResult(a, snapshot) ==
  LET decision == Promise           \* line 610, not awaited
  IN [ a EXCEPT
         !.decision = <<decision>>,
         !.handed = <<[snapshot |-> snapshot, location |-> a.location[1]]>>,
         !.view = IF showResultThrows(decision) THEN "error" ELSE "result" ]

\* whether the request that settles is the one of the selection that is
\* the current state.location
ForCurrentSelection(a, slot) ==
  /\ slot.caller = "selectLocation"
  /\ a.latest = "pending"
  /\ slot.selected.lat = a.location[1].lat
  /\ slot.selected.lon = a.location[1].lon

\* part_000 498-506 and 590-593: the caller continues with the snapshot
Returned(a, slot, snapshot) ==
  /\ app' = afterShowResult(
              [a EXCEPT !.weatherData = <<snapshot>>,
                        !.latest = IF ForCurrentSelection(a, slot) THEN "ok" ELSE @],
              snapshot)

\* part_000 507-509 and 594-601: the caller catches and shows the error
Caught(slot) ==
  /\ app' = [app EXCEPT !.view = "error",
                        !.latest = IF ForCurrentSelection(app, slot) THEN "threw" ELSE @]

\* lines 56-59: the error is logged and rethrown
Rethrow(c) ==
  /\ gw' = [gw EXCEPT ![c] = [pc |-> "idle"]]
  /\ observed' = [observed EXCEPT !.completed = "throw"]
  /\ UNCHANGED cache
  /\ IF IsAppCall(c) THEN Caught(gw[c]) ELSE UNCHANGED app

\* lines 35-43: the forecast request settles
WeatherFetchSettles(c, response) ==
  /\ gw[c].pc = "fetch"
  /\ IF response.kind = "reject" \/ ~response.ok
     THEN Rethrow(c)
     ELSE /\ gw' = [gw EXCEPT ![c].pc = "json"]
          /\ UNCHANGED <<cache, observed, app>>
  /\ UNCHANGED <<weatherData, md, sa, seasonalCache, now, log, pure, search>>

\* lines 43-46: response.json() settles and reverseGeocode is called
WeatherJsonSettles(c, body) ==
  /\ gw[c].pc = "json"
  /\ IF body = "throw"
     THEN Rethrow(c)
     ELSE /\ gw' = [gw EXCEPT ![c] = [gw[c] EXCEPT !.pc = "geocode"] @@ [body |-> body]]
          /\ UNCHANGED <<cache, observed, app>>
  /\ UNCHANGED <<weatherData, md, sa, seasonalCache, now, log, pure, search>>

\* lines 46-54: reverseGeocode resolves; the snapshot is built, stored and
\* returned
GeocodeSettles(c, response) ==
  /\ gw[c].pc = "geocode"
  /\ IF gw[c].body = "malformed"
     THEN Rethrow(c)
     ELSE LET locationName == reverseGeocode(response, gw[c].lat, gw[c].lon)
              data == [latitude |-> gw[c].lat, longitude |-> gw[c].lon]
              snapshot == returnedTo(c, processWeatherData(data, locationName, now))
          IN /\ cache' = [data |-> <<snapshot>>, timestamp |-> <<now>>]
             /\ gw' = [gw EXCEPT ![c] = [pc |-> "idle"]]
             /\ observed' = [observed EXCEPT !.stored = <<snapshot>>,
                                             !.storedAt = now,
                                             !.cleared = FALSE,
                                             !.completed = "store"]
             /\ IF IsAppCall(c) THEN Returned(app, gw[c], snapshot)
                ELSE UNCHANGED app
  /\ UNCHANGED <<weatherData, md, sa, seasonalCache, now, log, pure, search>>

(***************************************************************************)
(* App: selectLocation, requestLocation / getLocation, fetchWeather, retry *)
(* part_000 485-510, 539-603, 663-670                                      *)
(***************************************************************************)
\* geolocation requests pending at a time
MaxLocating == 1

\* lines 28-36 called from App with the cache and App.state as the caller
\* left them: the cached snapshot is returned and the caller continues, or
\* the forecast request is issued in the free slot c
AppGetWeatherByCoords(c, lat, lon, cacheNow, clearedNow, a, request) ==
  LET valid == isCacheValid(cacheNow, now)
  IN /\ observed' = [observed EXCEPT !.cleared = clearedNow]
     /\ IF valid
        THEN LET snapshot == IF request.caller = "selectLocation"
                             THEN overrideLocation(cacheNow.data[1], request.selected)
                             ELSE cacheNow.data[1]
             IN /\ c = 1
                /\ cache' = [cacheNow EXCEPT !.data = <<snapshot>>]
                /\ UNCHANGED gw
                /\ Returned(a, request, snapshot)
        ELSE /\ gw[c].pc = "idle"
             /\ \A d \in Calls : d < c => gw[d].pc # "idle"
             /\ cache' = cacheNow
             /\ gw' = [gw EXCEPT ![c] =
                        [pc |-> "fetch", lat |-> lat, lon |-> lon] @@ request]
             /\ app' = a

\* lines 485-510, to the await
SelectLocation(c, location) ==
  /\ search' = [search EXCEPT !.selectedIndex = -1]
  /\ AppGetWeatherByCoords(c, location.lat, location.lon,
        [data |-> <<>>, timestamp |-> <<>>], TRUE,
        [app EXCEPT !.view = "loading",
                    !.location = <<[ lat |-> location.lat, lon |-> location.lon,
                                     name |-> location.name, state |-> location.state,
                                     country |-> location.country ]>>,
                    !.latest = "pending"],
        [caller |-> "selectLocation", selected |-> location])
  /\ UNCHANGED <<weatherData, md, sa, seasonalCache, now, log, pure>>

\* lines 539-542 and 547-548: the position is asked for
RequestLocation ==
  /\ app.locating < MaxLocating
  /\ app' = [app EXCEPT !.view = "loading", !.locating = @ + 1]
  /\ UNCHANGED <<weatherData, md, sa, seasonalCache, now, log, pure, weatherVars, search>>

\* lines 549-555 and 583-593: the position arrives and fetchWeather runs to
\* its await
PositionFound(c, position) ==
  /\ app.locating > 0
  /\ AppGetWeatherByCoords(c, position.lat, position.lon, cache, observed.cleared,
        [app EXCEPT !.locating = @ - 1,
                    !.location = <<[lat |-> position.lat, lon |-> position.lon]>>,
                    !.latest = "none"],
        [caller |-> "fetchWeather"])
  /\ UNCHANGED <<weatherData, md, sa, seasonalCache, now, log, pure, search>>

\* lines 556-570: the position request fails
PositionError ==
  /\ app.locating > 0
  /\ app' = [app EXCEPT !.locating = @ - 1, !.view = "error"]
  /\ UNCHANGED <<weatherData, md, sa, seasonalCache, now, log, pure, weatherVars, search>>

\* lines 663-670
Retry(c) ==
  /\ IF app.location # <<>>
     THEN AppGetWeatherByCoords(c, app.location[1].lat, app.location[1].lon,
            cache, observed.cleared,
            [app EXCEPT !.view = "loading", !.latest = "none"],
            [caller |-> "fetchWeather"])
     ELSE /\ c = 1
          /\ app' = [app EXCEPT !.view = "permission"]
          /\ UNCHANGED weatherVars
  /\ UNCHANGED <<weatherData, md, sa, seasonalCache, now, log, pure, search>>

\* lines 214-217
ClearCache ==
  /\ cache' = [data |-> <<>>, timestamp |-> <<>>]
  /\ observed' = [observed EXCEPT !.cleared = TRUE]
  /\ UNCHANGED <<weatherData, md, sa, seasonalCache, now, log, pure, gw, appVars>>

(***************************************************************************)
(* App.handleInput, part_000 385-405, its timer callback, and              *)
(* WeatherAPI.searchLocations, part_000 87-118                             *)
(***************************************************************************)
WhiteSpace == {" ", "\t", "\n"}

RECURSIVE trimStart(_)
trimStart(s) ==
  IF s # <<>> /\ Head(s) \in WhiteSpace THEN trimStart(Tail(s)) ELSE s

RECURSIVE trimEnd(_)
trimEnd(s) ==
  IF s # <<>> /\ s[Len(s)] \in WhiteSpace
  THEN trimEnd(SubSeq(s, 1, Len(s) - 1)) ELSE s

\* String.prototype.trim
trim(s) == trimEnd(trimStart(s))

\* mutant: the previous timer is left pending
clearTimeoutLeavesPending(timers, id) == timers

\* clearTimeout(id) on the set of pending timers
clearTimeout(timers, id) == {t \in timers : t.id # id}

\* the values of the input box: one character, the same with a blank, two
\* characters, the same between blanks, three characters
InputValues ==
  { <<"m">>, <<"m", " ">>, <<"m", "i">>, <<" ", "m", "i", " ">>, <<"m", "i", "a">> }

\* input events in one behaviour, and the clock of the search runs, which
\* advances by 100 ms
MaxInputs == 3
MaxTenths == 5
Tenth == 100

SearchTick ==
  /\ now + Tenth <= MaxTenths * Tenth
  /\ now' = now + Tenth
  /\ UNCHANGED <<weatherData, md, sa, seasonalCache, log, pure, weatherVars, app, search>>

Inputs == {i \in DOMAIN search.trace : search.trace[i].op = "input"}

\* lines 385-405
HandleInput(value) ==
  /\ Cardinality(Inputs) < MaxInputs
  /\ LET query == trim(value)
         pending == IF search.searchTimeout # 0
                    THEN clearTimeout(search.timers, search.searchTimeout)
                    ELSE search.timers
         id == Cardinality(Inputs) + 1      \* what setTimeout returns
     IN search' =
          [ search EXCEPT
              !.trace = Append(@, [op |-> "input", query |-> query, at |-> now]),
              !.timers = IF Len(query) < 2 THEN pending
                         ELSE pending \cup {[id |-> id, query |-> query, due |-> now + 300]},
              !.searchTimeout = IF Len(query) < 2 THEN @ ELSE id,
              !.selectedIndex = IF Len(query) < 2 THEN -1 ELSE @ ]
  /\ UNCHANGED <<weatherData, md, sa, seasonalCache, now, log, pure, weatherVars, app>>

\* lines 399-400 and 87-94: the timer fires and searchLocations is called
TimerFires(t) ==
  /\ t \in search.timers
  /\ now >= t.due
  /\ search' =
       [ search EXCEPT
           !.timers = @ \ {t},
           !.trace = Append(@, [op |-> "search", query |-> t.query, at |-> now]),
           !.inFlight = IF Len(t.query) < 2 THEN @ ELSE @ \cup {t},
           !.suggestions = IF Len(t.query) < 2 THEN <<>> ELSE @,
           !.selectedIndex = IF Len(t.query) < 2 THEN -1 ELSE @ ]
  /\ UNCHANGED <<weatherData, md, sa, seasonalCache, now, log, pure, weatherVars, app>>

\* the places the geocoding service knows
Miami25 == [name |-> "Miami", state |-> "Florida", country |-> "United States",
            lat |-> 25761, lon |-> -80192]
Boston42 == [name |-> "Boston", state |-> "", country |-> "United States",
             lat |-> 42360, lon |-> -71058]

\* lines 91-117: what searchLocations resolves with, for a request that
\* failed, a body without results, and a body with results
SearchOutcomes == {"failed", "noresults", "results"}
searchLocations(outcome) ==
  IF outcome = "results" THEN <<Miami25, Boston42>> ELSE <<>>

\* lines 400-403: searchLocations resolves
SearchSettles(t, outcome) ==
  /\ t \in search.inFlight
  /\ search' = [ search EXCEPT !.inFlight = @ \ {t},
                               !.suggestions = searchLocations(outcome),
                               !.selectedIndex = -1 ]
  /\ UNCHANGED <<weatherData, md, sa, seasonalCache, now, log, pure, weatherVars, app>>

(***************************************************************************)
(* Pure functions applied to drawn arguments                               *)
(***************************************************************************)
MaxWind == 25

Boston == <<"b","o","s","t","o","n">>
Miami == <<"M","i","a","m","i">>
LosAngeles == <<"L","o","s"," ","A","n","g","e","l","e","s">>
Pieces == { Boston, Miami, LosAngeles, <<"n","e","w">>, <<"i","a">>, <<",">>, <<" ">> }

\* names made of up to MaxPieces pieces
MaxPieces == 3

RECURSIVE Concatenations(_)
Concatenations(n) ==
  IF n = 0 THEN {<<>>}
  ELSE LET shorter == Concatenations(n - 1)
       IN shorter \cup {s \o p : s \in shorter, p \in Pieces}

BostonMiamiFL ==
  <<"B","o","s","t","o","n",","," ","M","i","a","m","i",","," ","F","L">>

CityNames ==
  Concatenations(MaxPieces) \cup {MiamiFL, ChicagoIL, Nowhereville, BostonMiamiFL}

\* latitudes around the two boundaries, both hemispheres
Latitudes ==
  { 0, 10000, 29999, 30000, 45000, 45001, 50000,
    -29999, -30000, -45000, -45001 }

\* the archive's daily means around the four band boundaries, and the
\* longest temperature_2m_mean array drawn
DailyValues == {29, 30, 31, 40, 70, 71, 75, 76}
MaxDaily == 3

RECURSIVE SeqsUpTo(_, _)
SeqsUpTo(S, n) ==
  IF n = 0 THEN {<<>>}
  ELSE LET shorter == SeqsUpTo(S, n - 1)
       IN shorter \cup {Append(s, x) : s \in {t \in shorter : Len(t) = n - 1}, x \in S}

DailyArrays == SeqsUpTo({Day(v) : v \in DailyValues} \cup {NullDay}, MaxDaily)

\* the cache before the archive answers: empty, or holding an expired entry
\* for the key and an entry for another key
PureKey == "40.00,0.00"
OtherKey == "40.01,0.00"
PureNow == 2 * CACHE_DURATION
CachesBefore ==
  { EmptyCache,
    [k \in {PureKey, OtherKey} |->
       IF k = PureKey THEN [adjustment |-> 5, timestamp |-> 0]
       ELSE [adjustment |-> -5, timestamp |-> CACHE_DURATION]] }

\* arguments of buildTemperatureReasoning: every branch, both factors it
\* reads, every pair of biases
Types == {"very-cold", "cold", "cool", "warm"}
ReasoningArguments ==
  { [ current  |-> [temp |-> t, windSpeed |-> 20],
      forecast |-> [sixHour |-> [temp |-> t - 6]],
      factors  |-> [isWindy |-> w, willGetColder |-> c],
      type     |-> type,
      climateAdjustment  |-> ca,
      seasonalAdjustment |-> se ] :
    t \in {50, 76}, w \in BOOLEAN, c \in BOOLEAN, type \in Types,
    ca \in {WARM, MODERATE, COLD}, se \in {-8, -5, 0, 5, 8} }

PureCalls ==
  { [fn |-> "buildTemperatureReasoning", a |-> a, before |-> data,
     done |-> FALSE, ret |-> "", again |-> FALSE, ret2 |-> ""] :
    a \in ReasoningArguments, data \in CachesBefore }
  \cup
  { [fn |-> "calculateEffectiveTemp", temp |-> t, windSpeed |-> w,
     done |-> FALSE, ret |-> 0] : t \in Temps, w \in 0..MaxWind }
  \cup
  { [fn |-> "getClimateZone", lat |-> lat, lon |-> 0, cityName |-> n,
     done |-> FALSE, ret |-> 0] : lat \in Latitudes, n \in CityNames }
  \cup
  { [fn |-> "getSeasonalAdjustment", temps |-> ts, before |-> data,
     done |-> FALSE, ret |-> 0] :
    ts \in DailyArrays, data \in CachesBefore }

ApplyEffectiveTemp ==
  /\ pure.fn = "calculateEffectiveTemp" /\ ~pure.done
  /\ pure' = [pure EXCEPT !.done = TRUE,
                          !.ret = calculateEffectiveTemp(pure.temp, pure.windSpeed)]
  /\ UNCHANGED <<weatherData, md, sa, seasonalCache, now, log, weatherVars, appVars>>

ApplyClimateZone ==
  /\ pure.fn = "getClimateZone" /\ ~pure.done
  /\ pure' = [pure EXCEPT !.done = TRUE,
                          !.ret = getClimateZone(pure.lat, pure.lon, pure.cityName)]
  /\ UNCHANGED <<weatherData, md, sa, seasonalCache, now, log, weatherVars, appVars>>

\* buildTemperatureReasoning called a first time
ApplyReasoning ==
  /\ pure.fn = "buildTemperatureReasoning" /\ ~pure.done
  /\ pure' = [pure EXCEPT !.done = TRUE,
                          !.ret = buildTemperatureReasoningAt(seasonalCache, now, pure.a)]
  /\ UNCHANGED <<weatherData, md, sa, seasonalCache, now, log, weatherVars, appVars>>

\* between the two calls time passes and the seasonal cache is rewritten
ReasoningEnvironmentChanges ==
  /\ pure.fn = "buildTemperatureReasoning" /\ pure.done /\ ~pure.again
  /\ now = PureNow
  /\ now' = now + HalfDay
  /\ seasonalCache' \in CachesBefore
  /\ UNCHANGED <<weatherData, md, sa, log, pure, weatherVars, appVars>>

\* buildTemperatureReasoning called again with the same arguments
ApplyReasoningAgain ==
  /\ pure.fn = "buildTemperatureReasoning" /\ pure.done /\ ~pure.again
  /\ pure' = [pure EXCEPT !.again = TRUE,
                          !.ret2 = buildTemperatureReasoningAt(seasonalCache, now, pure.a)]
  /\ UNCHANGED <<weatherData, md, sa, seasonalCache, now, log, weatherVars, appVars>>

\* getSeasonalAdjustment from the point where response.json() has given a
\* body with the daily means pure.temps
ApplySeasonalOnJson ==
  /\ pure.fn = "getSeasonalAdjustment" /\ ~pure.done
  /\ LET out == seasonalOnJson(seasonalCache, now, PureKey,
                               [kind |-> "daily", temps |-> pure.temps])
     IN /\ pure' = [pure EXCEPT !.done = TRUE, !.ret = out.ret]
        /\ seasonalCache' = out.data
  /\ UNCHANGED <<weatherData, md, sa, now, log, weatherVars, appVars>>

(***************************************************************************)
(* Specifications                                                          *)
(***************************************************************************)
\* WeatherAPI as constructed, no call made
InitWeatherAPI ==
  /\ cache = [data |-> <<>>, timestamp |-> <<>>]
  /\ gw = [c \in Calls |-> [pc |-> "idle"]]
  /\ observed = [ stored |-> <<>>, storedAt |-> 0, cleared |-> FALSE,
                  completed |-> "none", call |-> [op |-> "none"] ]

\* App after init(): startLocationDetection has shown the permission view
InitAppState ==
  /\ app = [ location |-> <<>>, weatherData |-> <<>>, view |-> "permission",
             locating |-> 0, decision |-> <<>>, handed |-> <<>>,
             latest |-> "none" ]
  /\ search = [ searchTimeout |-> 0, suggestions |-> <<>>, selectedIndex |-> -1,
                timers |-> {}, inFlight |-> {}, trace |-> <<>> ]

InitCommon ==
  /\ InitAppState
  /\ md = IdleDecision
  /\ sa = [c \in Calls |-> IdleCall]
  /\ seasonalCache = EmptyCache
  /\ now = 0
  /\ log = <<>>
  /\ InitWeatherAPI

\* the decision runs: makeDecision on a drawn snapshot, again and again, the
\* clock standing still (the seasonal runs let cache entries expire)
Init ==
  /\ InitCommon
  /\ weatherData \in Snapshots
  /\ pure = NoPure

Next ==
  \/ MakeDecision
  \/ \E response \in Responses : FetchSettles(1, response)
  \/ \E body \in Bodies : JsonSettles(1, body)

Spec == Init /\ [][Next]_vars

\* the archive request and the reading of its body eventually settle
Fairness ==
  /\ WF_vars(\E response \in Responses : FetchSettles(1, response))
  /\ WF_vars(\E body \in Bodies : JsonSettles(1, body))

\* the decision runs under that assumption, on the breezy, rainy snapshots
\* of every location and temperature
InitFair ==
  /\ Init
  /\ weatherData.current.windSpeed = 8
  /\ weatherData.precipitation.isRaining
  /\ weatherData.forecast.sixHour.temp = weatherData.current.temp - 6

SpecFair == InitFair /\ [][Next]_vars /\ Fairness

\* the seasonal runs: direct, possibly overlapping getSeasonalAdjustment
\* calls while the clock advances by half days; the archive answers with a
\* body that throws, one with no daily means, one whose means are all null,
\* a summer's means or a winter's
SeasonalBodies ==
  { b \in Bodies :
      b.kind # "daily" \/ b.temps \in {<<NullDay>>, <<Day(80), NullDay>>, <<Day(20)>>} }

InitSeasonal ==
  /\ InitCommon
  /\ weatherData = NoSnapshot
  /\ pure = NoPure

NextSeasonal ==
  \/ \E c \in Calls, p \in Coordinates : GetSeasonalAdjustment(c, p.lat, p.lon)
  \/ \E c \in Calls, response \in Responses : FetchSettles(c, response)
  \/ \E c \in Calls, body \in SeasonalBodies : JsonSettles(c, body)
  \/ Tick

SpecSeasonal == InitSeasonal /\ [][NextSeasonal]_vars

\* the weather runs: getWeatherByCoords calls for two places, overlapping or
\* not, clearCache calls, and the clock advancing by five minutes
InitWeather ==
  /\ InitAppState
  /\ md = IdleDecision
  /\ sa = [c \in Calls |-> IdleCall]
  /\ seasonalCache = EmptyCache
  /\ log = <<>>
  /\ InitWeatherAPI
  /\ now = FiveMinutes
  /\ weatherData = NoSnapshot
  /\ pure = NoPure

NextWeather ==
  \/ \E c \in Calls, p \in Places : GetWeatherByCoords(c, p.lat, p.lon)
  \/ \E c \in Calls, response \in Responses : WeatherFetchSettles(c, response)
  \/ \E c \in Calls, body \in WeatherBodies : WeatherJsonSettles(c, body)
  \/ \E c \in Calls, response \in Responses : GeocodeSettles(c, response)
  \/ ClearCache
  \/ WeatherTick

SpecWeather == InitWeather /\ [][NextWeather]_vars

\* the search runs: input events, the debounce timer, the searches
InitSearch ==
  /\ InitCommon
  /\ weatherData = NoSnapshot
  /\ pure = NoPure

NextSearch ==
  \/ \E value \in InputValues : HandleInput(value)
  \/ \E t \in search.timers : TimerFires(t)
  \/ \E t \in search.inFlight, outcome \in SearchOutcomes : SearchSettles(t, outcome)
  \/ SearchTick

SpecSearch == InitSearch /\ [][NextSearch]_vars

\* the places the search offers and the positions geolocation reports: one
\* place is in both
Selections == {Miami25, Boston42}

\* the App runs: selections, geolocation, retry and the weather requests
\* they issue
InitApp ==
  /\ InitWeather

NextApp ==
  \/ \E c \in Calls, location \in Selections : SelectLocation(c, location)
  \/ RequestLocation
  \/ \E c \in Calls, position \in Places : PositionFound(c, position)
  \/ PositionError
  \/ \E c \in Calls : Retry(c)
  \/ \E c \in Calls, response \in Responses : WeatherFetchSettles(c, response)
  \/ \E c \in Calls, body \in WeatherBodies : WeatherJsonSettles(c, body)
  \/ \E c \in Calls, response \in Responses : GeocodeSettles(c, response)
  \/ WeatherTick

SpecApp == InitApp /\ [][NextApp]_vars

\* the pure runs
InitPure ==
  /\ InitAppState
  /\ md = IdleDecision
  /\ sa = [c \in Calls |-> IdleCall]
  /\ log = <<>>
  /\ InitWeatherAPI
  /\ weatherData = NoSnapshot
  /\ pure \in PureCalls
  /\ IF pure.fn \in {"getSeasonalAdjustment", "buildTemperatureReasoning"}
     THEN seasonalCache = pure.before /\ now = PureNow
     ELSE seasonalCache = EmptyCache /\ now = 0

NextPure ==
  \/ ApplyEffectiveTemp
  \/ ApplyClimateZone
  \/ ApplySeasonalOnJson
  \/ ApplyReasoning
  \/ ReasoningEnvironmentChanges
  \/ ApplyReasoningAgain

SpecPure == InitPure /\ [][NextPure]_vars

(***************************************************************************)
(* Properties                                                              *)
(***************************************************************************)
ClimateZones == {WARM, MODERATE, COLD}
SeasonalAdjustments == {-8, -5, 0, 5, 8}

Resolved == md.pc = "resolved"

\* null < Light < Medium < Heavy
Rank(jacketType) ==
  CASE jacketType = "Heavy jacket or coat"    -> 3
    [] jacketType = "Medium jacket"           -> 2
    [] jacketType = "Light jacket or sweater" -> 1
    [] OTHER                                  -> 0

\* the snapshot with another current.temp, everything else as it is
WithTemp(t) == [weatherData EXCEPT !.current.temp = t]
WithPrecipitation(p) == [weatherData EXCEPT !.precipitation = p]

\* C1: every resolved makeDecision has answer YES or NO, and a jacketType
\* that is non-null exactly when the answer is YES
C1_AnswerAndJacket ==
  Resolved =>
    /\ md.result.answer \in {"YES", "NO"}
    /\ (md.result.jacketType # null) <=> (md.result.answer = "YES")

\* a NO with both biases non-zero
C1_Witness ==
  /\ Resolved
  /\ md.result.answer = "NO"
  /\ md.result.jacketType = null
  /\ md.result.adjustments.climate = COLD
  /\ md.result.adjustments.seasonal = -8

\* C2 (the claim): the outcome follows the first of isVeryCold, isCold,
\* isCool that holds, and each of the four outcomes is produced by some
\* snapshot and pair of biases
Outcomes ==
  { [answer |-> "YES", jacketType |-> "Heavy jacket or coat"],
    [answer |-> "YES", jacketType |-> "Medium jacket"],
    [answer |-> "YES", jacketType |-> "Light jacket or sweater"],
    [answer |-> "NO", jacketType |-> null] }

C2_FourBranches ==
  /\ Resolved =>
       LET f == md.result.factors
           o == [answer |-> md.result.answer, jacketType |-> md.result.jacketType]
       IN o = IF f.isVeryCold THEN [answer |-> "YES", jacketType |-> "Heavy jacket or coat"]
              ELSE IF f.isCold THEN [answer |-> "YES", jacketType |-> "Medium jacket"]
              ELSE IF f.isCool THEN [answer |-> "YES", jacketType |-> "Light jacket or sweater"]
              ELSE [answer |-> "NO", jacketType |-> null]
  /\ \A o \in Outcomes :
       \E s \in Snapshots, c \in ClimateZones, a \in SeasonalAdjustments :
          LET type == typeOf(s, c, a, 12)
          IN o = [answer |-> answerOf(type), jacketType |-> jacketTypeOf(type)]

\* what the code does instead: no resolved decision recommends the medium
\* jacket, because MEDIUM_JACKET = HEAVY_JACKET makes isCold equal isVeryCold
C2_MediumNeverProduced ==
  Resolved =>
    /\ md.result.jacketType # "Medium jacket"
    /\ md.result.factors.isCold = md.result.factors.isVeryCold

\* C3: with everything but current.temp fixed, a lower current.temp never
\* turns YES into NO and never gives a lighter jacket
C3_MonotoneInTemp ==
  Resolved =>
    \A t \in Temps :
       LET type == typeOf(WithTemp(t), md.climateAdjustment,
                          md.result.adjustments.seasonal, md.hour)
       IN t < weatherData.current.temp =>
            /\ (md.result.answer = "YES" => answerOf(type) = "YES")
            /\ Rank(jacketTypeOf(type)) >= Rank(md.result.jacketType)

\* 70 degrees with wind 20 answers NO while 69 degrees, where the wind chill
\* applies, answers YES
C3_Witness ==
  /\ Resolved
  /\ weatherData.current.temp = 70
  /\ weatherData.current.windSpeed = 20
  /\ md.result.answer = "NO"
  /\ answerOf(typeOf(WithTemp(69), md.climateAdjustment,
                     md.result.adjustments.seasonal, md.hour)) = "YES"

EffectiveTempApplied == pure.fn = "calculateEffectiveTemp" /\ pure.done

C5_EffectiveTemp ==
  EffectiveTempApplied =>
    /\ pure.ret <= pure.temp
    /\ (pure.windSpeed >= 5 /\ pure.temp < 70) =>
         \E k \in 0..pure.windSpeed :
            /\ 3 * k <= pure.windSpeed - 5
            /\ pure.windSpeed - 5 < 3 * (k + 1)
            /\ pure.ret = pure.temp - k
    /\ ~(pure.windSpeed >= 5 /\ pure.temp < 70) => pure.ret = pure.temp
    /\ (pure.temp = 72 /\ pure.windSpeed = 20) => pure.ret = 72
    /\ (pure.temp = 65 /\ pure.windSpeed = 20) => pure.ret = 60
    /\ (pure.temp = 65 /\ pure.windSpeed = 4) => pure.ret = 65

C5_Witness ==
  /\ EffectiveTempApplied
  /\ pure.temp = 65 /\ pure.windSpeed = 20 /\ pure.ret = 60

\* C6: the four jacket boundaries are 75/60/45/45 plus climate + seasonal,
\* the drop, wind-chill and high-wind constants stay 10, 5 and 15, so
\* significantDrop, isWindy and the wind chill do not depend on the biases,
\* and adjustments.total = climate + seasonal
C6_OnlyBoundariesShift ==
  Resolved =>
    LET a == md.result.adjustments
        th == md.adjustedThresholds
        f == md.result.factors
        current == weatherData.current
        eff == IF current.windSpeed >= 5 /\ current.temp < 70
               THEN current.temp - (current.windSpeed - 5) \div 3
               ELSE current.temp
    IN /\ a.total = a.climate + a.seasonal
       /\ a.climate = md.climateAdjustment
       /\ th.NO_JACKET = 75 + a.total
       /\ th.LIGHT_JACKET = 60 + a.total
       /\ th.MEDIUM_JACKET = 45 + a.total
       /\ th.HEAVY_JACKET = 45 + a.total
       /\ th.TEMP_DROP_SIGNIFICANT = 10
       /\ th.WIND_CHILL_FACTOR = 5
       /\ th.HIGH_WIND = 15
       /\ f.significantDrop
            = (current.temp - weatherData.forecast.sixHour.temp >= 10)
       /\ f.isWindy = (current.windSpeed >= 15)
       /\ f.isVeryCold = (eff < 45 + a.total)
       /\ f.isCold = (eff < 45 + a.total)
       /\ f.isCool = (eff < 60 + a.total)
       /\ f.isWarm = (eff >= 75 + a.total)

\* both biases non-zero, windy, with a significant drop
C6_Witness ==
  /\ Resolved
  /\ md.result.adjustments.climate = COLD
  /\ md.result.adjustments.seasonal = 5
  /\ md.result.factors.isWindy
  /\ md.result.factors.significantDrop

\* C7: snapshots that differ only in precipitation get the same answer,
\* jacketType and reasoning; rainAdvice is null exactly when neither
\* isRaining nor chance > 50, and otherwise the waterproof text if isVeryCold
\* or isCold, the light-rain-gear text if isCool, the rain-gear-only text
\* otherwise
C7_RainOnlyAdvises ==
  Resolved =>
    LET f == md.result.factors
        rainy == \/ weatherData.precipitation.isRaining
                 \/ weatherData.precipitation.chance > 50
    IN /\ \A p \in Precipitations :
            LET other == decide(WithPrecipitation(p), md.climateAdjustment,
                                md.result.adjustments.seasonal, md.hour)
            IN /\ other.answer = md.result.answer
               /\ other.jacketType = md.result.jacketType
               /\ other.reasoning = md.result.reasoning
       /\ f.isRainy = rainy
       /\ (md.result.rainAdvice = null) <=> ~rainy
       /\ rainy =>
            md.result.rainAdvice =
              IF f.isVeryCold \/ f.isCold
              THEN "Rain expected - consider waterproof jacket"
              ELSE IF f.isCool
              THEN "Rain expected - light rain gear recommended"
              ELSE "Rain expected - no jacket needed for warmth, but consider rain gear"

\* raining, and still NO
C7_Witness ==
  /\ Resolved
  /\ weatherData.precipitation.isRaining
  /\ md.result.answer = "NO"
  /\ md.result.rainAdvice
       = "Rain expected - no jacket needed for warmth, but consider rain gear"

\* C8: getClimateZone returns -12, 0 or +8: -12 when the name matches the
\* warm list, whatever the latitude and whether or not it also matches the
\* cold list; otherwise +8 when it matches the cold list; otherwise -12 for
\* |lat| < 30, +8 for |lat| > 45 and 0 for 30 <= |lat| <= 45
ClimateZoneApplied == pure.fn = "getClimateZone" /\ pure.done

\* the match of lines 244 and 247: the first word is the city, or the
\* lower-cased name contains the city followed by a comma
NameMatches(cities, cityName) ==
  LET lower == toLowerCase(cityName)
  IN \E city \in cities :
        \/ FirstWord(lower) = city
        \/ \E i \in 1..Len(lower) :
              /\ i + Len(city) <= Len(lower)
              /\ \A j \in 1..Len(city) : lower[i + j - 1] = city[j]
              /\ lower[i + Len(city)] = ","

C8_ClimateZonePriority ==
  ClimateZoneApplied =>
    LET warm == NameMatches(warmCities, pure.cityName)
        cold == NameMatches(coldCities, pure.cityName)
        absLat == Abs(pure.lat)
    IN /\ pure.ret \in {-12, 0, 8}
       /\ warm => pure.ret = -12
       /\ (~warm /\ cold) => pure.ret = 8
       /\ (~warm /\ ~cold /\ absLat < 30000) => pure.ret = -12
       /\ (~warm /\ ~cold /\ absLat > 45000) => pure.ret = 8
       /\ (~warm /\ ~cold /\ absLat >= 30000 /\ absLat <= 45000) => pure.ret = 0

\* a name on both lists, at a cold latitude, resolved warm
C8_Witness ==
  /\ ClimateZoneApplied
  /\ NameMatches(warmCities, pure.cityName)
  /\ NameMatches(coldCities, pure.cityName)
  /\ pure.lat = 50000
  /\ pure.ret = -12

\* C9 (the claim): a name is resolved by a city list only when its first
\* token is a listed city or a whole token (sequence) equal to a listed
\* city is immediately followed by a comma; any other name, such as one that
\* contains a listed city as the tail of a longer word before a comma, gets
\* the latitude rule
WholeTokenMatches(cities, cityName) ==
  LET lower == toLowerCase(cityName)
  IN \E city \in cities :
        \/ FirstWord(lower) = city
        \/ \E i \in 1..Len(lower) :
              /\ i + Len(city) <= Len(lower)
              /\ SubSeq(lower, i, i + Len(city) - 1) = city
              /\ lower[i + Len(city)] = ","
              /\ (i = 1 \/ IsSeparator(lower[i - 1]))

C9_NoPartialMatch ==
  ( /\ ClimateZoneApplied
    /\ ~WholeTokenMatches(warmCities, pure.cityName)
    /\ ~WholeTokenMatches(coldCities, pure.cityName) )
  => pure.ret = latitudeZone(pure.lat)

\* C10 (the claim): of two calls for the same key less than 24h apart, the
\* second one made while no call is in flight, at most one issues the
\* archive request; and a call made 24h or more after the timestamp of the
\* entry it finds issues it
C10_NoRefetchWithin24h ==
  /\ \A i, j \in DOMAIN log :
        ( /\ i < j
          /\ log[i].key = log[j].key
          /\ log[j].alone
          /\ log[j].at - log[i].at < CACHE_DURATION )
        => ~(log[i].fetched /\ log[j].fetched)
  /\ \A j \in DOMAIN log :
        (log[j].found # -1 /\ log[j].at - log[j].found >= CACHE_DURATION)
        => log[j].fetched

\* C10 (amended): a call issues the archive request exactly when the cache
\* holds no entry for its key or the entry found is 24h old or older; the
\* key is the pair of coordinates rounded to two decimals; an entry's
\* timestamp is never in the future
C10_FreshFromEntryTimestamp ==
  /\ \A j \in DOMAIN log :
        /\ log[j].fetched
             <=> (log[j].found = -1 \/ log[j].at - log[j].found >= CACHE_DURATION)
        /\ log[j].key = getCacheKey(log[j].lat, log[j].lon)
  /\ \A i, j \in DOMAIN log :
        ( /\ (log[i].lat + 5) \div 10 = (log[j].lat + 5) \div 10
          /\ (log[i].lon + 5) \div 10 = (log[j].lon + 5) \div 10 )
        => log[i].key = log[j].key
  /\ \A k \in DOMAIN seasonalCache : seasonalCache[k].timestamp <= now

\* two calls half a day apart for different coordinates with the same key:
\* the first issued the request, the second found its entry and did not
C10_Witness ==
  /\ Len(log) = 2
  /\ log[1].lat # log[2].lat
  /\ log[1].key = log[2].key
  /\ log[1].fetched
  /\ ~log[2].fetched
  /\ log[2].found # -1
  /\ log[2].at - log[2].found = HalfDay

\* in this step the call of slot c, made directly, returns without having
\* obtained an average
ReturnsWithoutAverage(c) ==
  /\ sa[c].pc \in {"fetch", "json"}
  /\ sa'[c].pc = "idle"
  /\ sa[c].id > 0
  /\ ~log'[sa[c].id].wrote

\* the next call for the coordinates of logged call i would return the
\* cached adjustment
NextCallIsServedFromCache(i) ==
  isSeasonalCacheValid(seasonalCache', now', log[i].lat, log[i].lon)

\* C11 (as claimed): a call that obtains no average returns 0 and leaves the
\* whole seasonal cache as it was, and the next call for its key issues the
\* archive request again
C11_FailureRetriedByNextCall ==
  [][ \A c \in Calls :
        ReturnsWithoutAverage(c)
        => /\ log'[sa[c].id].ret = 0
           /\ seasonalCache' = seasonalCache
           /\ ~NextCallIsServedFromCache(sa[c].id) ]_vars

\* C11 (amended): a call that obtains no average returns 0 and leaves the
\* whole seasonal cache as it was; the next call for its key issues the
\* archive request again unless another call has stored an entry for the key
\* since the failing call began
C11_FailureLeavesCache ==
  /\ [][ \A c \in Calls :
          ReturnsWithoutAverage(c)
          => /\ log'[sa[c].id].ret = 0
             /\ seasonalCache' = seasonalCache
             /\ NextCallIsServedFromCache(sa[c].id)
                  => seasonalCache'[sa[c].key].timestamp >= log[sa[c].id].at ]_vars
  /\ [](\A i, j \in DOMAIN log :
          ( /\ i < j
            /\ log[i].key = log[j].key
            /\ log[i].fetched /\ log[i].done /\ ~log[i].wrote
            /\ log[j].found = -1 \/ log[j].found < log[i].at )
          => log[j].fetched)

\* an entry stored at time 0 has expired; the second call issued the request,
\* obtained no average and returned 0; the expired entry is still stored with
\* its old timestamp, so the next call will issue the request again
C11_Witness ==
  /\ Len(log) = 2
  /\ log[1].wrote
  /\ log[2].key = log[1].key
  /\ log[2].fetched /\ log[2].done /\ ~log[2].wrote
  /\ log[2].ret = 0
  /\ log[2].found = 0
  /\ log[2].at = CACHE_DURATION
  /\ seasonalCache[log[2].key] = [adjustment |-> -8, timestamp |-> 0]
  /\ ~isSeasonalCacheValid(seasonalCache, now, log[2].lat, log[2].lon)

SeasonalApplied == pure.fn = "getSeasonalAdjustment" /\ pure.done
NonNull(temps) == SelectSeq(temps, LAMBDA temp : temp # NullDay)
\* the mean of the non-null values compared with v, without dividing
MeanAbove(temps, v) == sum(NonNull(temps)) > v * Len(NonNull(temps))
MeanBelow(temps, v) == sum(NonNull(temps)) < v * Len(NonNull(temps))

\* C12: with at least one non-null daily value the bias follows the mean of
\* the non-null values (> 75: -8, > 70: -5, < 30: +8, < 40: +5, else 0, a
\* mean on a boundary falling in the weaker band), is one of the five values,
\* and is the adjustment stored in the cache for the key
C12_BiasFromMean ==
  (SeasonalApplied /\ Len(NonNull(pure.temps)) >= 1)
  => /\ pure.ret = IF MeanAbove(pure.temps, 75) THEN -8
                   ELSE IF MeanAbove(pure.temps, 70) THEN -5
                   ELSE IF MeanBelow(pure.temps, 30) THEN 8
                   ELSE IF MeanBelow(pure.temps, 40) THEN 5
                   ELSE 0
     /\ pure.ret \in SeasonalAdjustments
     /\ PureKey \in DOMAIN seasonalCache
     /\ seasonalCache[PureKey].adjustment = pure.ret
     /\ pure.temps = <<Day(75)>> => pure.ret = -5
     /\ pure.temps = <<Day(70)>> => pure.ret = 0
     /\ pure.temps = <<Day(40)>> => pure.ret = 0
     /\ pure.temps = <<Day(30)>> => pure.ret = 5
     /\ pure.temps = <<Day(75), Day(76)>> => pure.ret = -8
     /\ pure.temps = <<NullDay, Day(29), NullDay>> => pure.ret = 8

\* means 75 and 76 after a null: the mean 75.5 of the two numbers gives -8
\* (with the null counted as a value the mean would be below 70), and -8
\* replaces the expired entry of the key
C12_Witness ==
  /\ SeasonalApplied
  /\ pure.temps = <<NullDay, Day(75), Day(76)>>
  /\ pure.before # EmptyCache
  /\ pure.ret = -8
  /\ seasonalCache[PureKey] = [adjustment |-> -8, timestamp |-> now]

\* the fields of a DecisionResult
CompleteResult(r) ==
  /\ DOMAIN r = {"answer", "reasoning", "jacketType", "rainAdvice", "factors", "adjustments"}
  /\ r.answer \in {"YES", "NO"}
  /\ r.reasoning # ""
  /\ r.adjustments.climate \in ClimateZones
  /\ r.adjustments.seasonal \in SeasonalAdjustments
  /\ r.adjustments.total = r.adjustments.climate + r.adjustments.seasonal

\* C13: when the archive request and the reading of its body settle, whatever
\* their outcome, a makeDecision waiting for the seasonal bias resolves; it
\* has no rejected state, what it resolves with is a complete DecisionResult,
\* and when the wait ends without an entry written adjustments.seasonal is 0
C13_AlwaysResolves ==
  /\ (md.pc = "awaitSeasonal") ~> Resolved
  /\ [](md.pc \in {"idle", "awaitSeasonal", "resolved"})
  /\ [](Resolved => CompleteResult(md.result))
  /\ [][ ( /\ md.pc = "awaitSeasonal"
           /\ md'.pc = "resolved"
           /\ seasonalCache' = seasonalCache )
         => md'.result.adjustments.seasonal = 0 ]_vars

\* a decision resolved while nothing is cached: its archive request failed,
\* and it still answers, with a seasonal bias of 0
C13_Witness ==
  /\ Resolved
  /\ seasonalCache = EmptyCache
  /\ CompleteResult(md.result)
  /\ md.result.adjustments.seasonal = 0
  /\ md.result.adjustments.climate = WARM

\* in this step the call of slot c, made directly, writes its entry
Writes(c) ==
  /\ sa[c].pc = "json"
  /\ sa[c].id > 0
  /\ log'[sa[c].id].wrote

\* C14: every stored entry is a complete { adjustment, timestamp } pair that
\* a logged successful call returned; a step that writes replaces the entry of
\* its own key by its own pair and leaves every other key as it was, and no
\* other step changes the cache: so the entry of a key is always the one of
\* the successful call that completed last
C14_LastSuccessfulFetchWins ==
  /\ [](\A k \in DOMAIN seasonalCache :
         /\ DOMAIN seasonalCache[k] = {"adjustment", "timestamp"}
         /\ seasonalCache[k].adjustment \in SeasonalAdjustments
         /\ seasonalCache[k].timestamp \in 0..now
         /\ \E i \in DOMAIN log :
              /\ log[i].key = k
              /\ log[i].wrote
              /\ log[i].ret = seasonalCache[k].adjustment)
  /\ [][ \A c \in Calls :
          Writes(c)
          => /\ DOMAIN seasonalCache' = DOMAIN seasonalCache \cup {sa[c].key}
             /\ seasonalCache'[sa[c].key] =
                  [adjustment |-> log'[sa[c].id].ret, timestamp |-> now]
             /\ \A k \in DOMAIN seasonalCache :
                  k # sa[c].key => seasonalCache'[k] = seasonalCache[k] ]_vars
  /\ [][ (\A c \in Calls : ~Writes(c)) => seasonalCache' = seasonalCache ]_vars

\* two overlapping calls for one key both succeeded, with different biases;
\* the call that began first completed last, half a day after it began, and
\* the entry is its pair
C14_Witness ==
  /\ Len(log) = 2
  /\ log[1].key = log[2].key
  /\ ~log[2].alone
  /\ log[1].wrote /\ log[2].wrote
  /\ log[1].ret = 8 /\ log[2].ret = -8
  /\ log[1].at = 0
  /\ seasonalCache[log[1].key] = [adjustment |-> 8, timestamp |-> HalfDay]

ReasoningApplied == pure.fn = "buildTemperatureReasoning" /\ pure.done

\* a clause that follows the text so far when its condition holds
Then(condition, clause) == IF condition THEN ", " \o clause ELSE ""

BaseClause(a) ==
  CASE a.type = "cool" -> "It's a cool " \o ToString(a.current.temp) \o "°F"
    [] a.type = "warm" -> "It's " \o ToString(a.current.temp) \o "°F and comfortable"
    [] OTHER           -> "It's " \o ToString(a.current.temp) \o "°F"

WindClause(a) ==
  (CASE a.type = "very-cold" -> "and windy ("
     [] a.type = "cold"      -> "and breezy ("
     [] OTHER                -> "with some wind (")
  \o ToString(a.current.windSpeed) \o " mph)"

ColderClause(a) ==
  IF a.type = "cool" THEN "getting cooler later"
  ELSE "dropping to " \o ToString(a.forecast.sixHour.temp) \o "°F later"

\* the clauses of the branch, in the order claimed
BranchClauses(a) ==
  IF a.type = "warm"
  THEN BaseClause(a) \o Then(~a.factors.willGetColder, "staying warm through the day")
  ELSE BaseClause(a)
       \o Then(a.factors.isWindy, WindClause(a))
       \o Then(a.factors.willGetColder, ColderClause(a))

\* C15: the text is the base clause, then the wind clause if isWindy, then
\* the getting-colder clause if willGetColder (warm branch: the comfortable
\* clause, then "staying warm through the day" unless willGetColder), then
\* the regional commentary, then the seasonal commentary, joined by ", ";
\* it is never empty
C15_ClauseOrder ==
  ReasoningApplied
  => LET a == pure.a
         regional == regionalParts(a.type, a.climateAdjustment)
         seasonal == seasonalParts(a.seasonalAdjustment)
     IN /\ pure.ret = BranchClauses(a)
                       \o Then(regional # <<>>, join(regional))
                       \o Then(seasonal # <<>>, join(seasonal))
        /\ pure.ret # ""

\* a very cold, windy reading that will get colder, in a warm climate after
\* a very warm month: all five clauses in order
C15_Witness ==
  /\ ReasoningApplied
  /\ pure.a.type = "very-cold"
  /\ pure.ret = "It's 50°F, and windy (20 mph), dropping to 44°F later, "
                \o "but locals in warm climates tend to bundle up at this temperature, "
                \o "It's been very warm lately, so this feels cooler than usual"

\* C16: the warm-climate sentence is appended exactly when the climate bias
\* is -12 and the branch is not warm, the cold-climate sentence exactly when
\* it is +8 and the branch is warm, never both; the seasonal sentence exactly
\* for the biases +8 ("very cold ... warmer") and -8 ("very warm ...
\* cooler"), never for +5, -5 or 0
C16_CommentaryConditions ==
  ReasoningApplied
  => LET a == pure.a
     IN pure.ret =
          BranchClauses(a)
          \o Then(a.climateAdjustment = -12 /\ a.type # "warm",
                  "but locals in warm climates tend to bundle up at this temperature")
          \o Then(a.climateAdjustment = 8 /\ a.type = "warm",
                  "and people here are used to much colder weather")
          \o Then(a.seasonalAdjustment = 8,
                  "It's been very cold lately, so this feels warmer than usual")
          \o Then(a.seasonalAdjustment = -8,
                  "It's been very warm lately, so this feels cooler than usual")

\* a warm reading in a cold climate with a seasonal bias of +5: the
\* cold-climate sentence and no seasonal sentence
C16_Witness ==
  /\ ReasoningApplied
  /\ pure.a.type = "warm"
  /\ pure.a.climateAdjustment = COLD
  /\ pure.a.seasonalAdjustment = 5
  /\ pure.a.factors.willGetColder
  /\ pure.ret = "It's 76°F and comfortable, and people here are used to much colder weather"

Rethrows(c) ==
  /\ gw[c].pc # "idle"
  /\ gw'[c].pc = "idle"
  /\ observed'.completed = "throw"
  /\ observed'.stored = observed.stored /\ observed'.storedAt = observed.storedAt

\* C18: a call begun less than 10 minutes after the last successful
\* getWeatherByCoords stored its snapshot, with no clearCache in between,
\* returns that snapshot and issues no request; every other call (none stored
\* yet, 10 minutes or more later, or clearCache since) issues a request; a
\* call that fails rethrows and leaves the cache as it was
C18_WeatherCachedTenMinutes ==
  /\ [](observed.call.op = "call"
        => IF /\ observed.call.stored # <<>>
              /\ ~observed.call.cleared
              /\ observed.call.at - observed.call.storedAt < 10 * 60 * 1000
           THEN ~observed.call.fetched /\ observed.call.ret = observed.call.stored
           ELSE observed.call.fetched /\ observed.call.ret = <<>>)
  /\ [][ \A c \in Calls : Rethrows(c) => cache' = cache ]_vars
  /\ [][ \A c \in Calls :
          (gw[c].pc # "idle" /\ gw'[c].pc = "idle")
          => \/ Rethrows(c)
             \/ /\ observed'.completed = "store"
                /\ cache'.data = observed'.stored
                /\ cache'.timestamp = <<now>> ]_vars

\* a call stored its snapshot; five minutes later a call for the other place
\* was answered with that snapshot without a request
C18_Witness ==
  /\ observed.call.op = "call"
  /\ ~observed.call.fetched
  /\ observed.call.stored # <<>>
  /\ observed.call.ret = observed.call.stored
  /\ observed.call.at - observed.call.storedAt = FiveMinutes
  /\ observed.call.lat # observed.call.stored[1].location.lat

\* the effective temperature of the snapshot decided
EffectiveTemp ==
  calculateEffectiveTemp(weatherData.current.temp, weatherData.current.windSpeed)

\* C19 (as documented): with a total adjustment of 0 an effective temperature
\* below 45 gets the heavy jacket and one from 45 up to, not including, 60
\* the medium jacket
C19_DocumentedBands ==
  (Resolved /\ md.result.adjustments.total = 0)
  => /\ EffectiveTemp < 45 => md.result.jacketType = "Heavy jacket or coat"
     /\ (45 <= EffectiveTemp /\ EffectiveTemp < 60)
          => md.result.jacketType = "Medium jacket"

\* C20 (as claimed): the answer is NO exactly when factors.isWarm holds, and
\* an effective temperature from 60 + total up to, not including, 75 + total
\* gets YES with the light jacket or sweater
C20_NoJacketBoundary ==
  Resolved
  => /\ (md.result.answer = "NO") <=> md.result.factors.isWarm
     /\ ( /\ 60 + md.result.adjustments.total <= EffectiveTemp
          /\ EffectiveTemp < 75 + md.result.adjustments.total )
        => /\ md.result.answer = "YES"
           /\ md.result.jacketType = "Light jacket or sweater"

\* the last input event before event j of the search history (0: none)
LastInput(j) ==
  LET before == {i \in 1..(j - 1) : search.trace[i].op = "input"}
  IN IF before = {} THEN 0 ELSE CHOOSE i \in before : \A k \in before : k <= i

\* C21: at most one timer is pending; every search is issued for the query
\* of the last input event before it, that query has at least 2 characters
\* after trimming, 300 ms or more have passed since that event, and no other
\* search was issued since it
C21_Debounce ==
  /\ Cardinality(search.timers) <= 1
  /\ \A j \in DOMAIN search.trace :
       search.trace[j].op = "search"
       => LET i == LastInput(j)
          IN /\ i # 0
             /\ search.trace[i].query = search.trace[j].query
             /\ Len(search.trace[j].query) >= 2
             /\ search.trace[j].at - search.trace[i].at >= 300
             /\ \A k \in (i + 1)..(j - 1) : search.trace[k].op # "search"

\* "mi" typed, "mia" typed 200 ms later, and the one search, for "mia",
\* 300 ms after that
C21_Witness ==
  /\ Len(search.trace) = 3
  /\ search.trace[1] = [op |-> "input", query |-> <<"m", "i">>, at |-> 0]
  /\ search.trace[2] = [op |-> "input", query |-> <<"m", "i", "a">>, at |-> 200]
  /\ search.trace[3] = [op |-> "search", query |-> <<"m", "i", "a">>, at |-> 500]
  /\ search.timers = {}

\* the hours getHours() can return
AllHours == 0..23

\* the factors that do not read the clock
ClockFreeFactors ==
  { "isVeryCold", "isCold", "isCool", "isWarm", "significantDrop", "isRainy",
    "isWindy", "willGetColder" }

\* C26: the decision made at any other local hour for the same snapshot and
\* the same climate and seasonal adjustment has the same answer, jacketType,
\* reasoning and rainAdvice and the same factors but for isEvening and
\* isMorning, and these two are never both true
C26_ClockIndependent ==
  Resolved =>
    /\ md.result = decide(weatherData, md.climateAdjustment,
                          md.result.adjustments.seasonal, md.hour)
    /\ \A h \in AllHours :
         LET other == decide(weatherData, md.climateAdjustment,
                             md.result.adjustments.seasonal, h)
         IN /\ other.answer = md.result.answer
            /\ other.jacketType = md.result.jacketType
            /\ other.reasoning = md.result.reasoning
            /\ other.rainAdvice = md.result.rainAdvice
            /\ other.adjustments = md.result.adjustments
            /\ \A f \in ClockFreeFactors : other.factors[f] = md.result.factors[f]
            /\ ~(other.factors.isEvening /\ other.factors.isMorning)

\* a decision made in the evening, 2 degrees under the light threshold, whose
\* morning and midday counterparts differ in isEvening and isMorning
C26_Witness ==
  /\ Resolved
  /\ md.hour = 18
  /\ md.result.factors.isEvening
  /\ md.result.answer = "YES"
  /\ EffectiveTemp = 58 + md.result.adjustments.total
  /\ decide(weatherData, md.climateAdjustment,
            md.result.adjustments.seasonal, 6).factors.isMorning
  /\ ~decide(weatherData, md.climateAdjustment,
             md.result.adjustments.seasonal, 12).factors.isEvening

\* C27: in every resolved decision isVeryCold implies isCold, isCold implies
\* isCool, isCool and isWarm are not both true, and significantDrop implies
\* willGetColder
C27_FactorsConsistent ==
  Resolved =>
    LET f == md.result.factors
    IN /\ f.isVeryCold => f.isCold
       /\ f.isCold => f.isCool
       /\ ~(f.isCool /\ f.isWarm)
       /\ f.significantDrop => f.willGetColder

\* a very cold snapshot with a significant drop under a non-zero adjustment
C27_Witness ==
  /\ Resolved
  /\ md.result.adjustments.total # 0
  /\ md.result.factors.isVeryCold
  /\ md.result.factors.isCold
  /\ md.result.factors.isCool
  /\ ~md.result.factors.isWarm
  /\ md.result.factors.significantDrop
  /\ md.result.factors.willGetColder

\* the historical fetch of slot c is in flight
InFlight(c) == sa[c].pc \in {"fetch", "json"}

\* the entry call j found at its start was valid
FoundValid(j) == log[j].found # -1 /\ log[j].at - log[j].found < CACHE_DURATION

\* C22 (as claimed): no two historical fetches are in flight for one key
C22_OneFetchInFlightPerKey ==
  \A c, d \in Calls :
    (c # d /\ InFlight(c) /\ InFlight(d)) => sa[c].key # sa[d].key

\* C22 (amended): a call skips the historical fetch only when it finds a
\* valid entry at its start; a call begun while another call is in flight
\* and no valid entry is stored issues its own fetch, so overlapping calls
\* for one key each fetch; beginning a call stores nothing, and a fetch in
\* flight belongs to a call that found no valid entry
C22_OverlappingCallsEachFetch ==
  /\ [](\A j \in DOMAIN log :
         /\ ~log[j].fetched => FoundValid(j)
         /\ (~log[j].alone /\ ~FoundValid(j)) => log[j].fetched)
  /\ [](\A c \in Calls :
         (InFlight(c) /\ sa[c].id > 0)
         => /\ log[sa[c].id].fetched
            /\ log[sa[c].id].key = sa[c].key
            /\ ~FoundValid(sa[c].id))
  /\ [][ (\E c \in Calls : ~InFlight(c) /\ InFlight(c)')
         => seasonalCache' = seasonalCache ]_vars

\* two calls for one key, the second begun while the first was in flight,
\* and both fetches are in flight
C22_Witness ==
  /\ Len(log) = 2
  /\ log[1].key = log[2].key
  /\ ~log[2].alone
  /\ log[1].fetched /\ log[2].fetched
  /\ \E c, d \in Calls :
       /\ c # d
       /\ InFlight(c) /\ InFlight(d)
       /\ sa[c].id = 1 /\ sa[d].id = 2
       /\ sa[c].key = sa[d].key

\* snapshot s belongs to the coordinates of location l
BelongsTo(s, l) == s.location.lat = l.lat /\ s.location.lon = l.lon

\* C23 (as claimed): the snapshot handed to showResult was requested for the
\* coordinates state.location had when it was handed over
C23_SnapshotForCurrentLocation ==
  app.handed # <<>> => BelongsTo(app.handed[1].snapshot, app.handed[1].location)

\* no weather request is in flight
AllSettled == \A c \in Calls : gw[c].pc = "idle"

\* state.weatherData was received by selectLocation, which put the name of
\* its selection into it
ReceivedBySelectLocation ==
  /\ app.weatherData # <<>>
  /\ \E location \in Selections : app.weatherData[1].location.name = location.name

\* C24 (as claimed): once every request has completed, the one of the last
\* selection with success, and nothing but selections has set
\* state.location or state.weatherData, state.weatherData, the snapshot
\* handed to showResult and the WeatherAPI cache belong to state.location
C24_LastSelectionWins ==
  (AllSettled /\ app.latest = "ok" /\ ReceivedBySelectLocation)
  => /\ BelongsTo(app.weatherData[1], app.location[1])
     /\ BelongsTo(app.handed[1].snapshot, app.location[1])
     /\ cache.data # <<>> => BelongsTo(cache.data[1], app.location[1])

\* C25 (as claimed): the decision showResult reads is a completed result
\* with an answer, and a step that hands a snapshot to showResult ends in
\* the result view
C25_SuccessShowsResult ==
  /\ [](app.decision # <<>>
        => PropertyOf(app.decision[1], "answer") \in {"YES", "NO"})
  /\ [][ (app'.handed # app.handed) => app'.view = "result" ]_vars
====
